---- MODULE Spec2Model ----
(***************************************************************************)
(* Model of DepthFirstSearch/A-ancestor-visitor.cpp: the generic           *)
(* depth-first search with a visitor (DepthFirstSearch and                 *)
(* DepthFirstSearchVisit), the array-backed Graph and Colormap, the        *)
(* TimeDFSVisitor, and the driver main that answers ancestor queries.      *)
(*                                                                         *)
(* The recursion of DepthFirstSearchVisit is an explicit stack of frames,  *)
(* one frame per active call; every visitor callback is one step.          *)
(***************************************************************************)
EXTENDS Integers, Sequences, FiniteSets

\* Bounds of the model.
MaxVertexCount == 3      \* vertex_count read by main
MaxQueries == 1          \* query_count read by main
MaxGraphVertices == 3    \* vertices of a graph built directly with AddEdge
MaxEdges == 3            \* AddEdge calls on a graph built directly
ExampleMaxQueries == 2   \* query_count in the runs on inputs of the example's size
SmallMaxEdges == 2       \* AddEdge calls where termination or a second call is checked

VARIABLES
    vertex_count,      \* main: vertex_count; Graph::vertices_ is 0 .. vertex_count-1
    parent,            \* the parent numbers main has read so far (main's loop index is Len(parent))
    start,             \* main: start, the third argument of DepthFirstSearch
    outgoing_edges_,   \* Graph::outgoing_edges_
    timer,             \* TimeDFSVisitor::timer
    time_in,           \* TimeDFSVisitor::time_in
    time_out,          \* TimeDFSVisitor::time_out
    colormap_,         \* Colormap::colormap_ of the colormap local to DepthFirstSearch
    pc,                \* position of the caller and of DepthFirstSearch
    i,                 \* loop variable of the two loops of DepthFirstSearch
    stack,             \* active calls of DepthFirstSearchVisit, innermost last
    events,            \* visitor callbacks invoked by the current DepthFirstSearch call, in order
    query_count,       \* main: query_count
    output,            \* lines main has printed, with the query each answers
    run,               \* number of DepthFirstSearch calls made on the graph
    first              \* result of the previous DepthFirstSearch call on the same graph

vars == <<vertex_count, parent, start, outgoing_edges_, timer, time_in, time_out,
          colormap_, pc, i, stack, events, query_count, output, run, first>>

graphVars == <<vertex_count, outgoing_edges_>>
visitorVars == <<timer, time_in, time_out>>
mainVars == <<parent, query_count, output>>
rerunVars == <<run, first>>

\* enum class Color
kWhite == "kWhite"
kGray == "kGray"
kBlack == "kBlack"

\* Graph::GetVertices: vertices_ holds 0, 1, ..., vertex_count-1 in this order (std::iota)
GetVertices == 0 .. (vertex_count - 1)

\* Graph::GetOutgoingEdges
GetOutgoingEdges(vertex) == outgoing_edges_[vertex]

\* Colormap::GetColor
GetColor(vertex) == colormap_[vertex]

\* Colormap::SetColor
SetColor(cm, vertex, color) == [cm EXCEPT ![vertex] = color]

\* IEdge
Edge(source, destination) == [source |-> source, destination |-> destination]

\* Graph::Graph(vertex_count): no outgoing edges
Graph(n) == [v \in 0 .. (n - 1) |-> <<>>]

\* Graph::AddEdge
AddEdge(g, edge) == [g EXCEPT ![edge.source] = Append(@, edge)]

\* Colormap::Colormap(vertex_count): resize(vertex_count, Color::kWhite)
Colormap(n) == [v \in 0 .. (n - 1) |-> kWhite]

\* TimeDFSVisitor::TimeDFSVisitor(vertex_count): timer = 0, both vectors value-initialized
TimeDFSVisitor(n) ==
    [timer |-> 0, time_in |-> [v \in 0 .. (n - 1) |-> 0], time_out |-> [v \in 0 .. (n - 1) |-> 0]]

\* A callback of IDFSVisitor on a vertex
VertexEvent(cb, vertex) ==
    [cb |-> cb, source |-> vertex, destination |-> vertex, slot |-> 0]

\* A callback of IDFSVisitor on an edge; slot is the position of the edge object
\* in outgoing_edges_[source] (parallel edges are distinct objects)
EdgeEvent(cb, edge, slot) ==
    [cb |-> cb, source |-> edge.source, destination |-> edge.destination, slot |-> slot]

\* A new call DepthFirstSearchVisit(graph, colormap, visitor, vertex)
Frame(vertex) == [vertex |-> vertex, edge |-> 1, pc |-> "enter"]

Top == stack[Len(stack)]

SetTop(f) == [stack EXCEPT ![Len(stack)] = f]

Pop == SubSeq(stack, 1, Len(stack) - 1)

\* The edge the innermost call is working on
CurrentEdge == GetOutgoingEdges(Top.vertex)[Top.edge]

----
\* The state once a Graph of n vertices is constructed (Graph::Graph, lines 81-85),
\* before any TimeDFSVisitor or Colormap exists; at is the caller's position
Constructed(n, at) ==
    /\ vertex_count = n
    /\ parent = <<>>
    /\ start = -1
    /\ outgoing_edges_ = Graph(n)
    /\ timer = 0
    /\ time_in = <<>>
    /\ time_out = <<>>
    /\ colormap_ = <<>>
    /\ pc = at
    /\ i = 0
    /\ stack = <<>>
    /\ events = <<>>
    /\ query_count = 0
    /\ output = <<>>
    /\ run = 0
    /\ first = <<>>

\* main, lines 134-138: vertex_count is read, the graph constructed, start = -1
Init == \E n \in 1 .. MaxVertexCount : Constructed(n, "read")

\* ReadParent without the decrement of line 144: the 1-based parent is the edge's source
ReadParentNoDecrement(p) ==
    /\ pc = "read"
    /\ Len(parent) < vertex_count
    /\ parent' = Append(parent, p)
    /\ IF p = 0
         THEN /\ start' = Len(parent)
              /\ UNCHANGED outgoing_edges_
         ELSE /\ outgoing_edges_' = AddEdge(outgoing_edges_, Edge(p, Len(parent)))
              /\ UNCHANGED start
    /\ UNCHANGED <<vertex_count, timer, time_in, time_out, colormap_, pc, i, stack,
                   events, query_count, output, run, first>>

\* main, lines 139-147: one iteration of the loop that reads the parents
ReadParent(p) ==
    /\ pc = "read"
    /\ Len(parent) < vertex_count
    /\ parent' = Append(parent, p)
    /\ IF p = 0
         THEN /\ start' = Len(parent)
              /\ UNCHANGED outgoing_edges_
         ELSE /\ outgoing_edges_' = AddEdge(outgoing_edges_, Edge(p - 1, Len(parent)))
              /\ UNCHANGED start
    /\ UNCHANGED <<vertex_count, timer, time_in, time_out, colormap_, pc, i, stack,
                   events, query_count, output, run, first>>

\* The call DepthFirstSearch(graph, visitor, s) with a fresh TimeDFSVisitor:
\* line 149 and line 174 (the local colormap is constructed)
Call(s) ==
    /\ start' = s
    /\ timer' = TimeDFSVisitor(vertex_count).timer
    /\ time_in' = TimeDFSVisitor(vertex_count).time_in
    /\ time_out' = TimeDFSVisitor(vertex_count).time_out
    /\ colormap_' = Colormap(vertex_count)
    /\ pc' = "init"
    /\ i' = 0
    /\ stack' = <<>>
    /\ events' = <<>>
    /\ run' = run + 1

\* MainCall without the third argument: start takes its default -1 (line 70)
MainCallDefaultStart ==
    /\ pc = "read"
    /\ Len(parent) = vertex_count
    /\ Call(-1)
    /\ UNCHANGED <<graphVars, mainVars, first>>

\* main, lines 149-150
MainCall ==
    /\ pc = "read"
    /\ Len(parent) = vertex_count
    /\ Call(start)
    /\ UNCHANGED <<graphVars, mainVars, first>>

\* InitializeVertex with the vertices taken from the last to the first
InitializeVertexReversed ==
    /\ pc = "init"
    /\ i < vertex_count
    /\ colormap_' = SetColor(colormap_, vertex_count - 1 - i, kWhite)
    /\ events' = Append(events, VertexEvent("InitializeVertex", vertex_count - 1 - i))
    /\ i' = i + 1
    /\ UNCHANGED <<graphVars, start, visitorVars, pc, stack, mainVars, rerunVars>>

\* DepthFirstSearch, lines 175-178: one iteration of the initialization loop
InitializeVertex ==
    /\ pc = "init"
    /\ i < vertex_count
    /\ colormap_' = SetColor(colormap_, i, kWhite)
    /\ events' = Append(events, VertexEvent("InitializeVertex", i))
    /\ i' = i + 1
    /\ UNCHANGED <<graphVars, start, visitorVars, pc, stack, mainVars, rerunVars>>

\* StartExplicit with the start argument ignored: the sweep begins at once
StartExplicitIgnored ==
    /\ pc = "init"
    /\ i = vertex_count
    /\ start # -1
    /\ pc' = "sweep"
    /\ i' = 0
    /\ UNCHANGED <<graphVars, start, visitorVars, colormap_, stack, events, mainVars, rerunVars>>

\* DepthFirstSearch, lines 179-181: the explicit start vertex
StartExplicit ==
    /\ pc = "init"
    /\ i = vertex_count
    /\ start # -1
    /\ events' = Append(events, VertexEvent("StartVertex", start))
    /\ stack' = <<Frame(start)>>
    /\ pc' = "startVisit"
    /\ UNCHANGED <<graphVars, start, visitorVars, colormap_, i, mainVars, rerunVars>>

\* DepthFirstSearch, line 179 with start == -1
NoStart ==
    /\ pc = "init"
    /\ i = vertex_count
    /\ start = -1
    /\ pc' = "sweep"
    /\ i' = 0
    /\ UNCHANGED <<graphVars, start, visitorVars, colormap_, stack, events, mainVars, rerunVars>>

\* StartReturn with the sweep skipped when a start was given
StartReturnSkipSweep ==
    /\ pc = "startVisit"
    /\ stack = <<>>
    /\ pc' = "sweep"
    /\ i' = vertex_count
    /\ UNCHANGED <<graphVars, start, visitorVars, colormap_, stack, events, mainVars, rerunVars>>

\* DepthFirstSearch, line 181: the visit of the start vertex has returned
StartReturn ==
    /\ pc = "startVisit"
    /\ stack = <<>>
    /\ pc' = "sweep"
    /\ i' = 0
    /\ UNCHANGED <<graphVars, start, visitorVars, colormap_, stack, events, mainVars, rerunVars>>

\* Sweep without the colour test of line 184: every vertex is visited by the sweep
SweepNoCheck ==
    /\ pc = "sweep"
    /\ i < vertex_count
    /\ events' = Append(events, VertexEvent("StartVertex", i))
    /\ stack' = <<Frame(i)>>
    /\ pc' = "sweepVisit"
    /\ UNCHANGED <<graphVars, start, visitorVars, colormap_, i, mainVars, rerunVars>>

\* Sweep over the vertices in an unspecified order (an unordered container):
\* any white vertex is visited next
SweepAnyOrder ==
    /\ pc = "sweep"
    /\ i < vertex_count
    /\ IF \E w \in GetVertices : GetColor(w) = kWhite
         THEN /\ \E w \in {x \in GetVertices : GetColor(x) = kWhite} :
                    /\ events' = Append(events, VertexEvent("StartVertex", w))
                    /\ stack' = <<Frame(w)>>
              /\ pc' = "sweepVisit"
              /\ UNCHANGED i
         ELSE /\ i' = i + 1
              /\ UNCHANGED <<events, stack, pc>>
    /\ UNCHANGED <<graphVars, start, visitorVars, colormap_, mainVars, rerunVars>>

\* DepthFirstSearch, lines 183-187: one iteration of the sweep
Sweep ==
    /\ pc = "sweep"
    /\ i < vertex_count
    /\ IF GetColor(i) = kWhite
         THEN /\ events' = Append(events, VertexEvent("StartVertex", i))
              /\ stack' = <<Frame(i)>>
              /\ pc' = "sweepVisit"
              /\ UNCHANGED i
         ELSE /\ i' = i + 1
              /\ UNCHANGED <<events, stack, pc>>
    /\ UNCHANGED <<graphVars, start, visitorVars, colormap_, mainVars, rerunVars>>

\* DepthFirstSearch, line 186: the visit started by the sweep has returned
SweepReturn ==
    /\ pc = "sweepVisit"
    /\ stack = <<>>
    /\ pc' = "sweep"
    /\ i' = i + 1
    /\ UNCHANGED <<graphVars, start, visitorVars, colormap_, stack, events, mainVars, rerunVars>>

\* DepthFirstSearch, line 189
Return ==
    /\ pc = "sweep"
    /\ i = vertex_count
    /\ pc' = "returned"
    /\ UNCHANGED <<graphVars, start, visitorVars, colormap_, i, stack, events, mainVars, rerunVars>>

----
\* DiscoverVertex with time_in[vertex] = timer, the increment forgotten
DiscoverVertexNoTick ==
    /\ stack # <<>>
    /\ Top.pc = "enter"
    /\ colormap_' = SetColor(colormap_, Top.vertex, kGray)
    /\ time_in' = [time_in EXCEPT ![Top.vertex] = timer]
    /\ events' = Append(events, VertexEvent("DiscoverVertex", Top.vertex))
    /\ stack' = SetTop([Top EXCEPT !.pc = "loop"])
    /\ UNCHANGED <<graphVars, start, timer, time_out, pc, i, mainVars, rerunVars>>

\* DepthFirstSearchVisit, lines 193-194, with TimeDFSVisitor::DiscoverVertex (line 235)
DiscoverVertex ==
    /\ stack # <<>>
    /\ Top.pc = "enter"
    /\ colormap_' = SetColor(colormap_, Top.vertex, kGray)
    /\ time_in' = [time_in EXCEPT ![Top.vertex] = timer]
    /\ timer' = timer + 1
    /\ events' = Append(events, VertexEvent("DiscoverVertex", Top.vertex))
    /\ stack' = SetTop([Top EXCEPT !.pc = "loop"])
    /\ UNCHANGED <<graphVars, start, time_out, pc, i, mainVars, rerunVars>>

\* ExamineEdge by a visitor that also consumes a tick there
ExamineEdgeTick ==
    /\ stack # <<>>
    /\ Top.pc = "loop"
    /\ Top.edge <= Len(GetOutgoingEdges(Top.vertex))
    /\ events' = Append(events, EdgeEvent("ExamineEdge", CurrentEdge, Top.edge))
    /\ timer' = timer + 1
    /\ stack' = SetTop([Top EXCEPT !.pc = "classify"])
    /\ UNCHANGED <<graphVars, start, time_in, time_out, colormap_, pc, i, mainVars, rerunVars>>

\* DepthFirstSearchVisit, lines 195-197: the next outgoing edge
ExamineEdge ==
    /\ stack # <<>>
    /\ Top.pc = "loop"
    /\ Top.edge <= Len(GetOutgoingEdges(Top.vertex))
    /\ events' = Append(events, EdgeEvent("ExamineEdge", CurrentEdge, Top.edge))
    /\ stack' = SetTop([Top EXCEPT !.pc = "classify"])
    /\ UNCHANGED <<graphVars, start, visitorVars, colormap_, pc, i, mainVars, rerunVars>>

\* Recurse with the test of line 198 weakened to "not black": a gray vertex is entered again
RecurseNotBlack ==
    /\ stack # <<>>
    /\ Top.pc = "classify"
    /\ GetColor(CurrentEdge.destination) # kBlack
    /\ stack' = Append(SetTop([Top EXCEPT !.pc = "tree"]), Frame(CurrentEdge.destination))
    /\ UNCHANGED <<graphVars, start, visitorVars, colormap_, pc, i, events, mainVars, rerunVars>>

\* Recurse with lines 199 and 200 exchanged: TreeEdge is reported before the recursive call
RecurseTreeEdgeFirst ==
    /\ stack # <<>>
    /\ Top.pc = "classify"
    /\ GetColor(CurrentEdge.destination) = kWhite
    /\ events' = Append(events, EdgeEvent("TreeEdge", CurrentEdge, Top.edge))
    /\ stack' = Append(SetTop([Top EXCEPT !.pc = "finishEdge"]), Frame(CurrentEdge.destination))
    /\ UNCHANGED <<graphVars, start, visitorVars, colormap_, pc, i, mainVars, rerunVars>>

\* Recurse with the test of line 198 weakened to "not gray": finished vertices are revisited
RecurseNotGray ==
    /\ stack # <<>>
    /\ Top.pc = "classify"
    /\ GetColor(CurrentEdge.destination) # kGray
    /\ stack' = Append(SetTop([Top EXCEPT !.pc = "tree"]), Frame(CurrentEdge.destination))
    /\ UNCHANGED <<graphVars, start, visitorVars, colormap_, pc, i, events, mainVars, rerunVars>>

\* DepthFirstSearchVisit, lines 198-199: the destination is white, the recursive call
Recurse ==
    /\ stack # <<>>
    /\ Top.pc = "classify"
    /\ GetColor(CurrentEdge.destination) = kWhite
    /\ stack' = Append(SetTop([Top EXCEPT !.pc = "tree"]), Frame(CurrentEdge.destination))
    /\ UNCHANGED <<graphVars, start, visitorVars, colormap_, pc, i, events, mainVars, rerunVars>>

\* DepthFirstSearchVisit, line 200: the recursive call has returned
TreeEdge ==
    /\ stack # <<>>
    /\ Top.pc = "tree"
    /\ events' = Append(events, EdgeEvent("TreeEdge", CurrentEdge, Top.edge))
    /\ stack' = SetTop([Top EXCEPT !.pc = "finishEdge"])
    /\ UNCHANGED <<graphVars, start, visitorVars, colormap_, pc, i, mainVars, rerunVars>>

\* BackEdge with the colours of lines 201-204 exchanged: reported for a black destination
BackEdgeOnBlack ==
    /\ stack # <<>>
    /\ Top.pc = "classify"
    /\ GetColor(CurrentEdge.destination) # kWhite
    /\ GetColor(CurrentEdge.destination) = kBlack
    /\ events' = Append(events, EdgeEvent("BackEdge", CurrentEdge, Top.edge))
    /\ stack' = SetTop([Top EXCEPT !.pc = "finishEdge"])
    /\ UNCHANGED <<graphVars, start, visitorVars, colormap_, pc, i, mainVars, rerunVars>>

\* BackEdge without the else of line 203: a gray destination is also reported as
\* forward-or-cross
BackEdgeFallThrough ==
    /\ stack # <<>>
    /\ Top.pc = "classify"
    /\ GetColor(CurrentEdge.destination) # kWhite
    /\ GetColor(CurrentEdge.destination) = kGray
    /\ events' = events \o <<EdgeEvent("BackEdge", CurrentEdge, Top.edge),
                              EdgeEvent("ForwardOrCrossEdge", CurrentEdge, Top.edge)>>
    /\ stack' = SetTop([Top EXCEPT !.pc = "finishEdge"])
    /\ UNCHANGED <<graphVars, start, visitorVars, colormap_, pc, i, mainVars, rerunVars>>

\* DepthFirstSearchVisit, lines 201-202
BackEdge ==
    /\ stack # <<>>
    /\ Top.pc = "classify"
    /\ GetColor(CurrentEdge.destination) # kWhite
    /\ GetColor(CurrentEdge.destination) = kGray
    /\ events' = Append(events, EdgeEvent("BackEdge", CurrentEdge, Top.edge))
    /\ stack' = SetTop([Top EXCEPT !.pc = "finishEdge"])
    /\ UNCHANGED <<graphVars, start, visitorVars, colormap_, pc, i, mainVars, rerunVars>>

\* ForwardOrCrossEdge taken for every destination that is not gray, white included
ForwardOrCrossEdgeOnWhite ==
    /\ stack # <<>>
    /\ Top.pc = "classify"
    /\ GetColor(CurrentEdge.destination) # kGray
    /\ events' = Append(events, EdgeEvent("ForwardOrCrossEdge", CurrentEdge, Top.edge))
    /\ stack' = SetTop([Top EXCEPT !.pc = "finishEdge"])
    /\ UNCHANGED <<graphVars, start, visitorVars, colormap_, pc, i, mainVars, rerunVars>>

\* DepthFirstSearchVisit, lines 203-204
ForwardOrCrossEdge ==
    /\ stack # <<>>
    /\ Top.pc = "classify"
    /\ GetColor(CurrentEdge.destination) # kWhite
    /\ GetColor(CurrentEdge.destination) # kGray
    /\ events' = Append(events, EdgeEvent("ForwardOrCrossEdge", CurrentEdge, Top.edge))
    /\ stack' = SetTop([Top EXCEPT !.pc = "finishEdge"])
    /\ UNCHANGED <<graphVars, start, visitorVars, colormap_, pc, i, mainVars, rerunVars>>

\* DepthFirstSearchVisit, line 206, and the loop's increment
FinishEdge ==
    /\ stack # <<>>
    /\ Top.pc = "finishEdge"
    /\ events' = Append(events, EdgeEvent("FinishEdge", CurrentEdge, Top.edge))
    /\ stack' = SetTop([Top EXCEPT !.pc = "loop", !.edge = @ + 1])
    /\ UNCHANGED <<graphVars, start, visitorVars, colormap_, pc, i, mainVars, rerunVars>>

\* FinishVertex with time_out[vertex] = timer, the increment forgotten
FinishVertexNoTick ==
    /\ stack # <<>>
    /\ Top.pc = "loop"
    /\ Top.edge > Len(GetOutgoingEdges(Top.vertex))
    /\ colormap_' = SetColor(colormap_, Top.vertex, kBlack)
    /\ time_out' = [time_out EXCEPT ![Top.vertex] = timer]
    /\ events' = Append(events, VertexEvent("FinishVertex", Top.vertex))
    /\ stack' = Pop
    /\ UNCHANGED <<graphVars, start, timer, time_in, pc, i, mainVars, rerunVars>>

\* DepthFirstSearchVisit, lines 208-210, with TimeDFSVisitor::FinishVertex (line 239)
FinishVertex ==
    /\ stack # <<>>
    /\ Top.pc = "loop"
    /\ Top.edge > Len(GetOutgoingEdges(Top.vertex))
    /\ colormap_' = SetColor(colormap_, Top.vertex, kBlack)
    /\ time_out' = [time_out EXCEPT ![Top.vertex] = timer]
    /\ timer' = timer + 1
    /\ events' = Append(events, VertexEvent("FinishVertex", Top.vertex))
    /\ stack' = Pop
    /\ UNCHANGED <<graphVars, start, time_in, pc, i, mainVars, rerunVars>>

\* The steps of one call of DepthFirstSearch
DFSStep ==
    \/ InitializeVertex
    \/ StartExplicit
    \/ NoStart
    \/ StartReturn
    \/ Sweep
    \/ SweepReturn
    \/ Return
    \/ DiscoverVertex
    \/ ExamineEdge
    \/ Recurse
    \/ TreeEdge
    \/ BackEdge
    \/ ForwardOrCrossEdge
    \/ FinishEdge
    \/ FinishVertex

----
\* Resolver with the second comparison of line 161 left out
ResolverInOnly(ancestor, vertex) ==
    time_in[ancestor] <= time_in[vertex]

\* Resolver with strict comparisons
ResolverStrict(ancestor, vertex) ==
    /\ time_in[ancestor] < time_in[vertex]
    /\ time_out[vertex] < time_out[ancestor]

\* main, lines 160-161: the resolver test on 0-based indices
Resolver(ancestor, vertex) ==
    /\ time_in[ancestor] <= time_in[vertex]
    /\ time_out[vertex] <= time_out[ancestor]

\* main, lines 152-153
ReadQueryCount(n) ==
    /\ pc = "returned"
    /\ query_count' = n
    /\ pc' = "queries"
    /\ UNCHANGED <<graphVars, parent, start, visitorVars, colormap_, i, stack, events,
                   output, rerunVars>>

\* main, lines 155-167: one query, read as 1-based indices
Query(ancestor, vertex) ==
    /\ pc = "queries"
    /\ query_count > 0
    /\ query_count' = query_count - 1
    /\ output' = Append(output,
                        [ancestor |-> ancestor, vertex |-> vertex,
                         line |-> IF Resolver(ancestor - 1, vertex - 1) THEN 1 ELSE 0])
    /\ UNCHANGED <<graphVars, parent, start, visitorVars, colormap_, pc, i, stack, events,
                   rerunVars>>

\* main, lines 155 and 169: the loop condition fails (query_count-- leaves -1)
Exit ==
    /\ pc = "queries"
    /\ query_count <= 0
    /\ query_count' = query_count - 1
    /\ pc' = "exit"
    /\ UNCHANGED <<graphVars, parent, start, visitorVars, colormap_, i, stack, events,
                   output, rerunVars>>

\* The driver main on every input within the bounds
Next ==
    \/ \E p \in 0 .. vertex_count : ReadParent(p)
    \/ MainCall
    \/ DFSStep
    \/ \E n \in 0 .. MaxQueries : ReadQueryCount(n)
    \/ \E a, v \in 1 .. vertex_count : Query(a, v)
    \/ Exit

Spec == Init /\ [][Next]_vars

----
\* The input of the end-to-end example: vertex_count 4, parents 0 1 1 3
ExampleParents == <<0, 1, 1, 3>>

\* main, lines 134-138, on an input with as many vertices as the example
InitExample == Constructed(Len(ExampleParents), "read")

\* The driver main on every input of the example's size (the example among
\* them), with any queries
NextExample ==
    \/ \E p \in 0 .. vertex_count : ReadParent(p)
    \/ MainCall
    \/ DFSStep
    \/ \E n \in 0 .. ExampleMaxQueries : ReadQueryCount(n)
    \/ \E a, v \in 1 .. vertex_count : Query(a, v)
    \/ Exit

SpecExample == InitExample /\ [][NextExample]_vars

----
\* Number of edges stored in the graph
RECURSIVE EdgesUpTo(_)
EdgesUpTo(n) == IF n = 0 THEN 0 ELSE Len(outgoing_edges_[n - 1]) + EdgesUpTo(n - 1)

EdgeCount == EdgesUpTo(vertex_count)

\* A caller of the library: Graph graph(vertex_count), any vertex count within the bound
InitGraph == \E n \in 1 .. MaxGraphVertices : Constructed(n, "build")

\* The caller adds any edge with both endpoints in [0, vertex_count): Graph::AddEdge
BuildEdge(source, destination) ==
    /\ pc = "build"
    /\ EdgeCount < MaxEdges
    /\ outgoing_edges_' = AddEdge(outgoing_edges_, Edge(source, destination))
    /\ UNCHANGED <<vertex_count, parent, start, timer, time_in, time_out, colormap_, pc, i,
                   stack, events, query_count, output, run, first>>

\* The caller calls DepthFirstSearch with any start argument, -1 (the default) included
BuildCall(s) ==
    /\ pc = "build"
    /\ Call(s)
    /\ UNCHANGED <<graphVars, mainVars, first>>

\* DepthFirstSearch on any graph with any start
NextGraph ==
    \/ \E s, d \in GetVertices : BuildEdge(s, d)
    \/ \E s \in {-1} \cup GetVertices : BuildCall(s)
    \/ DFSStep

SpecGraph == InitGraph /\ [][NextGraph]_vars

\* DepthFirstSearch on any graph of at most SmallMaxEdges edges with any start
NextSmall ==
    \/ \E s, d \in GetVertices : EdgeCount < SmallMaxEdges /\ BuildEdge(s, d)
    \/ \E s \in {-1} \cup GetVertices : BuildCall(s)
    \/ DFSStep

\* Sequential execution: a call of DepthFirstSearch keeps taking steps until it returns
FairSpecGraph == InitGraph /\ [][NextSmall]_vars /\ WF_vars(DFSStep)

\* The caller calls DepthFirstSearch a second time on the unchanged graph with the
\* same start, a fresh TimeDFSVisitor and (line 174) a fresh Colormap
Rerun ==
    /\ pc = "returned"
    /\ run = 1
    /\ first' = [time_in |-> time_in, time_out |-> time_out, events |-> events]
    /\ Call(start)
    /\ UNCHANGED <<graphVars, mainVars>>

\* DepthFirstSearch called twice on any graph with any start
NextTwice ==
    \/ \E s, d \in GetVertices : EdgeCount < SmallMaxEdges /\ BuildEdge(s, d)
    \/ \E s \in {-1} \cup GetVertices : BuildCall(s)
    \/ DFSStep
    \/ Rerun

SpecTwice == InitGraph /\ [][NextTwice]_vars

----
\* DepthFirstSearch has returned (in main the timestamps are then read by the queries)
Returned == pc \in {"returned", "queries", "exit"}

\* A call of DepthFirstSearch is in progress
InCall == pc \in {"init", "startVisit", "sweep", "sweepVisit"}

\* Number of times the callback e has been invoked in the current call
Count(e) == Cardinality({k \in 1 .. Len(events) : events[k] = e})

\* Positions of the callbacks named cb in the current call
Positions(cb) == {k \in 1 .. Len(events) : events[k].cb = cb}

\* The forest described by the parent numbers main has read: v is a root
IsRoot(v) == parent[v + 1] = 0

Roots == {v \in GetVertices : IsRoot(v)}

\* v reaches a root along at most fuel parent pointers
RECURSIVE ReachesRoot(_, _)
ReachesRoot(v, fuel) ==
    \/ IsRoot(v)
    \/ fuel > 0 /\ ReachesRoot(parent[v + 1] - 1, fuel - 1)

\* The parent pointers describe a forest: no vertex lies on a cycle
IsForest == \A v \in GetVertices : ReachesRoot(v, vertex_count)

\* a is v or is reached from v along at most fuel parent pointers
RECURSIVE AncestorWithin(_, _, _)
AncestorWithin(a, v, fuel) ==
    \/ a = v
    \/ fuel > 0 /\ ~IsRoot(v) /\ AncestorWithin(a, parent[v + 1] - 1, fuel - 1)

AncestorOrSelf(a, v) == AncestorWithin(a, v, vertex_count)

\* The resolver test agrees with the forest on every pair of vertices
ResolverExact ==
    \A a, v \in GetVertices : Resolver(a, v) <=> AncestorOrSelf(a, v)

\* C1 as stated: for every forest given by parent pointers and traversed as main
\* does, the resolver test on (a, v) is true if and only if a is an
\* ancestor-or-self of v.
C1_AnyForest == (pc = "returned" /\ IsForest) => ResolverExact

\* C1, amended: for every forest with exactly one root (one vertex read with
\* parent 0), traversed as main does, the resolver test on (a, v) is true if and
\* only if a is an ancestor-or-self of v; so it is true for every vertex and its
\* direct parent and false for every non-ancestor.
C1_SingleRoot ==
    (pc = "returned" /\ IsForest /\ Cardinality(Roots) = 1) => ResolverExact

\* A tree of three vertices has been traversed: some proper ancestor is
\* recognised and some non-ancestor is rejected
C1_Witness ==
    /\ pc = "returned"
    /\ IsForest
    /\ Cardinality(Roots) = 1
    /\ vertex_count = 3
    /\ \E a, v \in GetVertices : a # v /\ AncestorOrSelf(a, v) /\ Resolver(a, v)
    /\ \E a, v \in GetVertices : ~AncestorOrSelf(a, v) /\ ~Resolver(a, v)

----
\* The closed intervals of u and v do not meet
Disjoint(u, v) == time_out[u] < time_in[v] \/ time_out[v] < time_in[u]

\* The interval of u strictly contains the interval of v
StrictlyContains(u, v) == time_in[u] < time_in[v] /\ time_out[v] < time_out[u]

\* C2, nesting law: after a complete traversal the intervals
\* [time_in, time_out] of two distinct vertices are disjoint or one strictly
\* contains the other.
C2_Nesting ==
    pc = "returned" =>
        \A u, v \in GetVertices :
            u # v => Disjoint(u, v) \/ StrictlyContains(u, v) \/ StrictlyContains(v, u)

\* A traversal has ended with a nested pair and a disjoint pair of intervals
C2_Witness ==
    /\ pc = "returned"
    /\ \E u, v \in GetVertices : StrictlyContains(u, v)
    /\ \E u, v \in GetVertices : u # v /\ Disjoint(u, v)

\* The 2V timestamps
Timestamps == {time_in[v] : v \in GetVertices} \cup {time_out[v] : v \in GetVertices}

\* C3: after DepthFirstSearch returns, every vertex has
\* 0 <= time_in < time_out <= 2V-1, the 2V timestamps are pairwise distinct
\* (exactly 0 .. 2V-1), and the timer is 2V.
C3_Timestamps ==
    pc = "returned" =>
        /\ \A v \in GetVertices :
              0 <= time_in[v] /\ time_in[v] < time_out[v] /\ time_out[v] <= 2 * vertex_count - 1
        /\ Cardinality(Timestamps) = 2 * vertex_count
        /\ Timestamps = 0 .. (2 * vertex_count - 1)
        /\ timer = 2 * vertex_count

\* A traversal of three vertices with an edge has ended
C3_Witness ==
    /\ pc = "returned"
    /\ vertex_count = 3
    /\ EdgeCount > 0
    /\ timer = 6

----
\* C4: during one call of DepthFirstSearch, DiscoverVertex and FinishVertex are
\* each invoked exactly once for every vertex, and ExamineEdge exactly once for
\* every stored edge (parallel edges counted separately), with or without an
\* explicit start.
C4_ExactlyOnce ==
    pc = "returned" =>
        /\ \A v \in GetVertices :
              /\ Count(VertexEvent("DiscoverVertex", v)) = 1
              /\ Count(VertexEvent("FinishVertex", v)) = 1
              /\ \A k \in 1 .. Len(GetOutgoingEdges(v)) :
                    Count(EdgeEvent("ExamineEdge", GetOutgoingEdges(v)[k], k)) = 1
        /\ Cardinality(Positions("DiscoverVertex")) = vertex_count
        /\ Cardinality(Positions("FinishVertex")) = vertex_count
        /\ Cardinality(Positions("ExamineEdge")) = EdgeCount

\* A call with an explicit start has returned on a graph with two parallel edges
\* and an edge into an already finished vertex
C4_Witness ==
    /\ pc = "returned"
    /\ start # -1
    /\ \E v \in GetVertices :
          /\ Len(GetOutgoingEdges(v)) >= 2
          /\ GetOutgoingEdges(v)[1] = GetOutgoingEdges(v)[2]
    /\ Positions("ForwardOrCrossEdge") # {}

\* A call with the default start has returned on a graph with edges
C4_WitnessNoStart ==
    /\ pc = "returned"
    /\ start = -1
    /\ EdgeCount = MaxEdges

----
\* The colour change of vertex v in a step
ColorStep(v) ==
    \/ colormap_'[v] = colormap_[v]
    \/ colormap_[v] = kWhite /\ colormap_'[v] = kGray
    \/ colormap_[v] = kGray /\ colormap_'[v] = kBlack

\* C5: after initialization the colour of a vertex only changes white -> gray ->
\* black, and a black vertex is never passed to DepthFirstSearchVisit again.
C5_ColorMonotone ==
    [][ (InCall /\ InCall') =>
            /\ \A v \in GetVertices : ColorStep(v)
            /\ Len(stack') > Len(stack) => colormap_[stack'[Len(stack')].vertex] # kBlack
      ]_vars

\* An edge into a black vertex has been classified while another vertex is gray
C5_Witness ==
    /\ InCall
    /\ \E v \in GetVertices : colormap_[v] = kBlack
    /\ \E v \in GetVertices : colormap_[v] = kGray
    /\ Positions("ForwardOrCrossEdge") # {}

----
\* Every vertex is black and both of its timestamps were written by the visitor
Covered ==
    \A v \in GetVertices :
        /\ colormap_[v] = kBlack
        /\ Count(VertexEvent("DiscoverVertex", v)) > 0
        /\ Count(VertexEvent("FinishVertex", v)) > 0
        /\ time_in[v] < time_out[v]

\* C6: on every finite graph with endpoints in [0, V) (cycles, self-loops and
\* parallel edges included, with or without an explicit start) DepthFirstSearch
\* eventually returns, and when it returns every vertex is black and has time_in
\* and time_out assigned.
C6_Terminates == (InCall ~> pc = "returned") /\ [](pc = "returned" => Covered)

\* A call has returned on a graph with a self-loop, a cycle through two vertices
\* or parallel edges
C6_Witness ==
    /\ pc = "returned"
    /\ Covered
    /\ Positions("BackEdge") # {}
    /\ EdgeCount = SmallMaxEdges

----
\* C7: when an explicit start is passed, DiscoverVertex(start) precedes every
\* other DiscoverVertex, so time_in[start] is 0, and the sweep still discovers
\* every vertex not reached from start.
C7_StartFirst ==
    (InCall \/ pc = "returned") /\ start # -1 =>
        /\ \A k \in Positions("DiscoverVertex") :
              \E j \in 1 .. k : events[j] = VertexEvent("DiscoverVertex", start)
        /\ pc = "returned" =>
              /\ time_in[start] = 0
              /\ \A v \in GetVertices : Count(VertexEvent("DiscoverVertex", v)) = 1

\* A call with an explicit start other than vertex 0 has returned, and the sweep
\* had to start at least one more tree
C7_Witness ==
    /\ pc = "returned"
    /\ start > 0
    /\ time_in[start] = 0
    /\ Cardinality(Positions("StartVertex")) >= 2

----
\* C8, reflexivity: after a complete traversal the resolver test on (v, v) is
\* true for every vertex v, and the driver prints 1 for such a query.
C8_Reflexive ==
    Returned =>
        /\ \A v \in GetVertices : Resolver(v, v)
        /\ \A k \in 1 .. Len(output) :
              output[k].ancestor = output[k].vertex => output[k].line = 1

\* The driver has answered a query (v, v)
C8_Witness ==
    \E k \in 1 .. Len(output) : output[k].ancestor = output[k].vertex /\ output[k].line = 1

----
\* C9, determinism: a second DepthFirstSearch on the unchanged graph with the
\* same start, a fresh Colormap and a fresh TimeDFSVisitor yields the same
\* time_in and time_out and the same sequence of visitor callbacks.
C9_Deterministic ==
    (pc = "returned" /\ run = 2) =>
        /\ time_in = first.time_in
        /\ time_out = first.time_out
        /\ events = first.events

\* The second call has returned on a graph with edges and several trees
C9_Witness ==
    /\ pc = "returned"
    /\ run = 2
    /\ EdgeCount > 0
    /\ Cardinality(Positions("StartVertex")) >= 2
    /\ events = first.events

----
\* C10, end-to-end example: with vertex_count 4 and parents 0 1 1 3 the driver
\* answers the query (1, 4) with 1 and the query (2, 4) with 0.
C10_Example ==
    parent = ExampleParents =>
        \A k \in 1 .. Len(output) :
            /\ (output[k].ancestor = 1 /\ output[k].vertex = 4) => output[k].line = 1
            /\ (output[k].ancestor = 2 /\ output[k].vertex = 4) => output[k].line = 0

\* The driver has read the example and answered (1, 4) and then (2, 4)
C10_Witness ==
    /\ parent = ExampleParents
    /\ Len(output) = 2
    /\ output[1] = [ancestor |-> 1, vertex |-> 4, line |-> 1]
    /\ output[2] = [ancestor |-> 2, vertex |-> 4, line |-> 0]

----
\* The callbacks that classify an edge
Classifications == {"TreeEdge", "BackEdge", "ForwardOrCrossEdge"}

\* C11: if exactly one vertex has parent 0 and the parent pointers form a tree
\* rooted at it, the traversal forms a single DFS tree: StartVertex is called
\* exactly once, on the root; every edge is reported as TreeEdge; and the
\* resolver test on (a, v) is true exactly when a is an ancestor-or-self of v.
C11_SingleTree ==
    (pc = "returned" /\ IsForest /\ Cardinality(Roots) = 1) =>
        /\ Cardinality(Positions("StartVertex")) = 1
        /\ \A r \in Roots : Count(VertexEvent("StartVertex", r)) = 1
        /\ \A v \in GetVertices : \A k \in 1 .. Len(GetOutgoingEdges(v)) :
              Count(EdgeEvent("TreeEdge", GetOutgoingEdges(v)[k], k)) = 1
        /\ Positions("BackEdge") = {}
        /\ Positions("ForwardOrCrossEdge") = {}
        /\ ResolverExact

\* A tree of three vertices whose root is not vertex 0 has been traversed
C11_Witness ==
    /\ pc = "returned"
    /\ IsForest
    /\ Cardinality(Roots) = 1
    /\ vertex_count = 3
    /\ start > 0
    /\ Cardinality(Positions("TreeEdge")) = 2
    /\ ResolverExact

----
\* Position of the callback e in the current call (e was invoked exactly once)
Pos(e) == CHOOSE k \in 1 .. Len(events) : events[k] = e

\* The callbacks on the edge at position k of the outgoing edges of v come in
\* the order ExamineEdge, one classification, FinishEdge, all of them between
\* DiscoverVertex(v) and FinishVertex(v)
EdgeOrder(v, k) ==
    LET e == GetOutgoingEdges(v)[k]
        cls == {n \in 1 .. Len(events) :
                   /\ events[n].cb \in Classifications
                   /\ events[n] = EdgeEvent(events[n].cb, e, k)}
    IN /\ Count(EdgeEvent("ExamineEdge", e, k)) = 1
       /\ Count(EdgeEvent("FinishEdge", e, k)) = 1
       /\ Cardinality(cls) = 1
       /\ Pos(VertexEvent("DiscoverVertex", v)) < Pos(EdgeEvent("ExamineEdge", e, k))
       /\ \A n \in cls : /\ Pos(EdgeEvent("ExamineEdge", e, k)) < n
                         /\ n < Pos(EdgeEvent("FinishEdge", e, k))
       /\ Pos(EdgeEvent("FinishEdge", e, k)) < Pos(VertexEvent("FinishVertex", v))
       /\ k > 1 =>
             Pos(EdgeEvent("FinishEdge", GetOutgoingEdges(v)[k - 1], k - 1))
                 < Pos(EdgeEvent("ExamineEdge", e, k))

\* C12: for every edge e = (v, w) the callbacks come in the order
\* ExamineEdge(e), exactly one of TreeEdge / BackEdge / ForwardOrCrossEdge,
\* FinishEdge(e), all between DiscoverVertex(v) and FinishVertex(v); the
\* outgoing edges of v are processed in the order AddEdge added them, one edge's
\* callbacks completing before ExamineEdge of the next.
C12_EdgeOrder ==
    pc = "returned" =>
        \A v \in GetVertices : \A k \in 1 .. Len(GetOutgoingEdges(v)) : EdgeOrder(v, k)

\* A call has returned on a graph where one vertex has two outgoing edges and
\* all three classifications occurred
C12_Witness ==
    /\ pc = "returned"
    /\ \E v \in GetVertices : Len(GetOutgoingEdges(v)) >= 2
    /\ Positions("TreeEdge") # {}
    /\ Positions("BackEdge") # {}
    /\ Positions("ForwardOrCrossEdge") # {}

----
\* The step invokes exactly one callback, named cb
Emits(cb) ==
    /\ Len(events') = Len(events) + 1
    /\ SubSeq(events', 1, Len(events)) = events
    /\ events'[Len(events')].cb = cb

\* The callback the step invokes
Emitted == events'[Len(events')]

\* The vertices with an active call of DepthFirstSearchVisit
StackVertices == {stack[k].vertex : k \in 1 .. Len(stack)}

\* The colour of w after the first n callbacks of the call, read off the log:
\* white before DiscoverVertex(w), gray until FinishVertex(w), black afterwards
ColorAt(n, w) ==
    IF \A k \in 1 .. n : events[k] # VertexEvent("DiscoverVertex", w) THEN kWhite
    ELSE IF \A k \in 1 .. n : events[k] # VertexEvent("FinishVertex", w) THEN kGray
    ELSE kBlack

\* The colormap agrees with the colours read off the log
ColorLog ==
    (InCall \/ pc = "returned") =>
        \A v \in GetVertices : colormap_[v] = ColorAt(Len(events), v)

\* The colour that leads to the classification cb
ColorOf(cb) ==
    IF cb = "TreeEdge" THEN kWhite ELSE IF cb = "BackEdge" THEN kGray ELSE kBlack

\* The call on top of the stack has just invoked ExamineEdge (line 196) and reads
\* the destination's colour next
JustExamined == stack # <<>> /\ Top.pc = "classify"

\* What the step after ExamineEdge does, by the destination's colour at that moment
ClassifyStep ==
    LET w == CurrentEdge.destination
    IN /\ GetColor(w) = kWhite =>
             /\ events' = events
             /\ stack' = Append(SetTop([Top EXCEPT !.pc = "tree"]), Frame(w))
       /\ GetColor(w) = kGray =>
             events' = Append(events, EdgeEvent("BackEdge", CurrentEdge, Top.edge))
       /\ GetColor(w) = kBlack =>
             events' = Append(events, EdgeEvent("ForwardOrCrossEdge", CurrentEdge, Top.edge))

\* The classification the step emits matches the colour its destination had when
\* the edge was examined, and a back edge leads to a vertex on the recursion path
ClassifiedByColor ==
    \A cb \in Classifications :
        Emits(cb) =>
            /\ ColorAt(Pos(EdgeEvent("ExamineEdge", Emitted, Emitted.slot)), Emitted.destination)
                   = ColorOf(cb)
            /\ Emitted.source = Top.vertex
            /\ cb = "BackEdge" => Emitted.destination \in StackVertices

\* In the completed log every edge examined with a white destination got its TreeEdge
WhiteGotTreeEdge ==
    \A n \in Positions("ExamineEdge") :
        ColorAt(n, events[n].destination) = kWhite =>
            \E m \in (n + 1) .. Len(events) :
                events[m] = [events[n] EXCEPT !.cb = "TreeEdge"]

\* C13: the classification follows the destination's colour at the moment the
\* edge is examined: TreeEdge iff it was white, BackEdge iff gray,
\* ForwardOrCrossEdge iff black; and whenever BackEdge(v, w) is emitted, w is on
\* the current recursion path (v itself or a vertex whose visit is in progress).
C13_Classification ==
    [][ /\ ColorLog'
        /\ JustExamined => ClassifyStep
        /\ ClassifiedByColor
        /\ pc' = "returned" => WhiteGotTreeEdge'
      ]_vars

\* A back edge to a proper ancestor has been reported after a tree edge
C13_Witness ==
    /\ InCall
    /\ Positions("TreeEdge") # {}
    /\ events[Len(events)].cb = "BackEdge"
    /\ events[Len(events)].source # events[Len(events)].destination
    /\ events[Len(events)].destination \in StackVertices

----
\* The callback e has been invoked in the current call
Logged(e) == \E k \in 1 .. Len(events) : events[k] = e

\* The vertices discovered after DiscoverVertex(v), so far
DiscoveredSince(v) ==
    {events[k].source :
        k \in {n \in Positions("DiscoverVertex") : n > Pos(VertexEvent("DiscoverVertex", v))}}

\* C14, event ordering around recursion: DiscoverVertex(v) precedes
\* DiscoverVertex of every vertex visited inside v's visit; TreeEdge(v, w) is
\* emitted only after FinishVertex(w), w being black; FinishVertex(v) is emitted
\* only after every vertex discovered during v's visit has been finished and
\* every outgoing edge of v has received FinishEdge, and v is then black.
C14_RecursionOrder ==
    [][ /\ Emits("DiscoverVertex") =>
              /\ Emitted.source = Top.vertex
              /\ \A k \in 1 .. (Len(stack) - 1) :
                    Logged(VertexEvent("DiscoverVertex", stack[k].vertex))
        /\ Emits("TreeEdge") =>
              /\ GetColor(Emitted.destination) = kBlack
              /\ Logged(VertexEvent("FinishVertex", Emitted.destination))
        /\ Emits("FinishVertex") =>
              /\ Emitted.source = Top.vertex
              /\ colormap_'[Top.vertex] = kBlack
              /\ \A k \in 1 .. Len(GetOutgoingEdges(Top.vertex)) :
                    Logged(EdgeEvent("FinishEdge", GetOutgoingEdges(Top.vertex)[k], k))
              /\ \A w \in DiscoveredSince(Top.vertex) :
                    Logged(VertexEvent("FinishVertex", w))
      ]_vars

\* A vertex that is not a root of the traversal has just been finished after
\* the visit of one of its children
C14_Witness ==
    /\ InCall
    /\ stack # <<>>
    /\ events # <<>>
    /\ events[Len(events)].cb = "FinishVertex"
    /\ \E k \in Positions("TreeEdge") : events[k].source = events[Len(events)].source

----
\* C15: InitializeVertex is called exactly once for every vertex, in increasing
\* vertex order, and all these calls happen before the first StartVertex or
\* DiscoverVertex; when the first StartVertex is issued every vertex is white.
C15_InitializeFirst ==
    (InCall \/ pc = "returned") =>
        /\ \A k \in 1 .. Len(events) :
              IF k <= vertex_count
                THEN events[k] = VertexEvent("InitializeVertex", k - 1)
                ELSE events[k].cb # "InitializeVertex"
        /\ pc # "init" => Len(events) >= vertex_count
        /\ Positions("StartVertex") = {Len(events)} =>
              \A v \in GetVertices : colormap_[v] = kWhite

\* The first StartVertex of a call on three vertices has just been issued
C15_Witness ==
    /\ InCall
    /\ vertex_count = 3
    /\ Positions("StartVertex") = {Len(events)}
    /\ Cardinality(Positions("InitializeVertex")) = 3

----
\* Every StartVertex(v) in the log is directly followed by DiscoverVertex(v), no
\* vertex has two of them, an explicit start has the first one, and those issued
\* by the sweep come in increasing vertex order
StartLog ==
    /\ \A k \in Positions("StartVertex") :
          /\ k < Len(events) => events[k + 1] = VertexEvent("DiscoverVertex", events[k].source)
          /\ pc = "returned" => k < Len(events)
          /\ start # -1 /\ (\A j \in Positions("StartVertex") : k <= j) =>
                events[k].source = start
    /\ \A v \in GetVertices : Count(VertexEvent("StartVertex", v)) <= 1
    /\ \A j, k \in Positions("StartVertex") :
          /\ j < k
          /\ start = -1 \/ (\E n \in Positions("StartVertex") : n < j)
          => events[j].source < events[k].source

\* C16: StartVertex(v) is called only when v is white and the recursion stack is
\* empty, is immediately followed by DiscoverVertex(v), and is called at most
\* once per vertex: once for the explicit start (if given) and, during the sweep
\* in increasing vertex order, once for each vertex still white when the sweep
\* reaches it; the explicit start never receives a second StartVertex.
C16_StartVertex ==
    [][ /\ Emits("StartVertex") =>
              /\ GetColor(Emitted.source) = kWhite
              /\ stack = <<>>
        /\ (pc = "sweep" /\ i < vertex_count) =>
              IF GetColor(i) = kWhite
                THEN events' = Append(events, VertexEvent("StartVertex", i))
                ELSE events' = events
        /\ (InCall' \/ pc' = "returned") => StartLog'
      ]_vars

\* A call with an explicit start other than vertex 0 has returned after the
\* sweep started two more trees
C16_Witness ==
    /\ pc = "returned"
    /\ start > 0
    /\ Cardinality(Positions("StartVertex")) = 3
    /\ EdgeCount > 0

----
\* C17: the timer starts at 0, never decreases, and increases by exactly 1 at
\* each DiscoverVertex and each FinishVertex and at no other event; time_in[v] is
\* written exactly once, with the timer value at v's discovery, and time_out[v]
\* exactly once, with the timer value at v's finish; neither changes afterwards.
C17_Timer ==
    [][ /\ pc' = "init" => timer' = 0
        /\ InCall =>
              /\ timer' = IF Emits("DiscoverVertex") \/ Emits("FinishVertex")
                            THEN timer + 1 ELSE timer
              /\ IF Emits("DiscoverVertex")
                   THEN /\ time_in' = [time_in EXCEPT ![Emitted.source] = timer]
                        /\ ~Logged(Emitted)
                   ELSE time_in' = time_in
              /\ IF Emits("FinishVertex")
                   THEN /\ time_out' = [time_out EXCEPT ![Emitted.source] = timer]
                        /\ ~Logged(Emitted)
                   ELSE time_out' = time_out
      ]_vars

\* A vertex below the root of its tree has just been finished at tick 3, after
\* edge callbacks that left the timer alone
C17_Witness ==
    /\ InCall
    /\ stack # <<>>
    /\ events # <<>>
    /\ events[Len(events)].cb = "FinishVertex"
    /\ time_out[events[Len(events)].source] = 3
    /\ timer = 4
    /\ Positions("FinishEdge") # {}

----
\* The gray vertices
GrayVertices == {v \in GetVertices : colormap_[v] = kGray}

\* No vertex has two active calls, each call but the outermost was made from
\* line 199 of the call below it on an edge to its vertex, and the depth is at
\* most the number of vertices
StackShape ==
    /\ \A j, k \in 1 .. Len(stack) : j # k => stack[j].vertex # stack[k].vertex
    /\ \A k \in 1 .. (Len(stack) - 1) :
          /\ stack[k].pc = "tree"
          /\ GetOutgoingEdges(stack[k].vertex)[stack[k].edge] =
                 Edge(stack[k].vertex, stack[k + 1].vertex)
    /\ Len(stack) <= vertex_count

----
\* The edges reported as TreeEdge in the current call, as pairs
TreeEdges ==
    {<<events[k].source, events[k].destination>> : k \in Positions("TreeEdge")}

\* The edges stored in the graph, as pairs
GraphEdges ==
    UNION {{<<v, GetOutgoingEdges(v)[k].destination>> : k \in 1 .. Len(GetOutgoingEdges(v))} :
              v \in GetVertices}

\* v is a or is reached from a along at most fuel edges reported as TreeEdge
RECURSIVE TreeReach(_, _, _)
TreeReach(a, v, fuel) ==
    \/ a = v
    \/ /\ fuel > 0
       /\ \E w \in GetVertices : <<a, w>> \in TreeEdges /\ TreeReach(w, v, fuel - 1)

\* C19, soundness of the resolver on arbitrary graphs: after a complete
\* traversal of any directed graph, if time_in[a] <= time_in[v] and
\* time_out[v] <= time_out[a] then a = v or there is a directed path from a to v
\* of edges reported as TreeEdge (which are edges of the graph), so the resolver
\* never answers 1 for a pair where v is unreachable from a.
C19_ResolverSound ==
    pc = "returned" =>
        /\ TreeEdges \subseteq GraphEdges
        /\ \A a, v \in GetVertices : Resolver(a, v) => TreeReach(a, v, vertex_count)

\* A graph that is no forest (a back edge and an edge into a finished vertex
\* were reported) has been traversed and the resolver accepts a pair of distinct
\* vertices
C19_Witness ==
    /\ pc = "returned"
    /\ Positions("BackEdge") # {}
    /\ Positions("ForwardOrCrossEdge") # {}
    /\ \E a, v \in GetVertices : a # v /\ Resolver(a, v) /\ TreeReach(a, v, vertex_count)
    /\ \E a, v \in GetVertices : <<a, v>> \in GraphEdges /\ ~Resolver(a, v)

====
